---- MODULE Spec2Model ----
(***************************************************************************)
(* A model of the link object of src/src/WiiProxy.py (class WiiProxy):     *)
(* the state set up by __init__, the worker thread running                 *)
(* __handle_command_queue, and the public operations start(), stop() and   *)
(* the write_delay setter, called by concurrent caller threads.            *)
(*                                                                         *)
(* The worker method, __send_message and __read_message consist of TODO    *)
(* comments and `pass`: the loop of __handle_command_queue is              *)
(* `while True: pass`.  No method of the class puts to or gets from        *)
(* _command_queue and none calls the serial port, so the queue stays as    *)
(* __init__ left it and the model has no enqueue, dequeue, send or read    *)
(* step: there is none in the source to translate.                         *)
(*                                                                         *)
(* The thread target is read as the worker method (line 76 names it        *)
(* _handle_command_queue, the method is __handle_command_queue).           *)
(*                                                                         *)
(* The message codec of the class (__assemble_message,                     *)
(* __disassemble_message, __get_crc) and the command descriptor of         *)
(* src/wiiproxy/command.py (MspCommand) are pure functions: they are       *)
(* operators here, applied to bounded inputs under CodecSpec and           *)
(* CommandSpec.                                                            *)
(***************************************************************************)
EXTENDS Integers, Sequences, FiniteSets, TLC

\* Caller threads that may use one link object concurrently.
NumCallers == 2

\* PriorityQueue(100): the capacity of _command_queue.
QueueMaxSize == 100

\* self._write_delay = 0.005, in milliseconds.
DefaultWriteDelayMs == 5

Callers == 1..NumCallers

\* Values handed to the write_delay setter: floats (in milliseconds) and
\* values that are no float.
\* A float is a number (here in milliseconds) or NaN; float('nan') is an
\* instance of float like any other.
DelayInputs ==
    { [isfloat |-> TRUE,  nan |-> FALSE, ms |-> 0],
      [isfloat |-> TRUE,  nan |-> FALSE, ms |-> DefaultWriteDelayMs],
      [isfloat |-> TRUE,  nan |-> FALSE, ms |-> 2 * DefaultWriteDelayMs],
      [isfloat |-> TRUE,  nan |-> FALSE, ms |-> -1],
      [isfloat |-> TRUE,  nan |-> TRUE,  ms |-> 0],
      [isfloat |-> FALSE, nan |-> FALSE, ms |-> 3],
      [isfloat |-> FALSE, nan |-> FALSE, ms |-> -1] }

\* The float stored in _write_delay.
Float(v) == [nan |-> v.nan, ms |-> v.ms]

\* value < 0: every comparison with NaN is false.
LessThanZero(v) == ~v.nan /\ v.ms < 0

VARIABLES
    is_active,      \* self._is_active
    command_queue,  \* self._command_queue: the pending entries
    thread,         \* self._thread: "initial", "alive" or "stopped"
    worker_pc,      \* where the worker is in __handle_command_queue
    write_delay,    \* self._write_delay: a float
    pc,             \* pc[c]: where caller c is inside start() or stop()
    last,           \* last[c]: the call caller c finished last, and how
    codec,          \* the last call of a frame codec function, with result
    created,        \* the result of the last MspCommand(code, struct_format)
    table           \* the command descriptors registered so far

vars == <<is_active, command_queue, thread, worker_pc, write_delay, pc, last,
          codec, created, table>>

link == <<is_active, command_queue, thread, worker_pc, write_delay>>

\* What the class methods of the codec and the command descriptors work
\* on; no method of the link object touches it.
lib == <<codec, created, table>>

\* How a call ended: "noop" (the early return of start() and stop()),
\* "done" (ran to its last line) or the exception it raised.
Call(op, ret) == [op |-> op, ret |-> ret]

NoCall == Call("none", "none")

\* The call of caller c ends.
Return(c, op, ret) ==
    /\ pc' = [pc EXCEPT ![c] = "idle"]
    /\ last' = [last EXCEPT ![c] = Call(op, ret)]
    /\ UNCHANGED lib

\* Caller c moves on inside its call.
Goto(c, label) ==
    /\ pc' = [pc EXCEPT ![c] = label]
    /\ UNCHANGED <<last, lib>>

\* No codec call made, no descriptor created or registered yet.
NoCodec == [op |-> "none", format |-> <<>>, data |-> <<>>, buf |-> <<>>,
            out |-> [raised |-> "", value |-> <<>>], aux |-> <<>>]

\* No descriptor asked for yet.
NotCreated == [op |-> "none", code |-> 0, struct_format |-> <<>>,
               result |-> [raised |-> "not called", value |-> <<>>]]

LibInit ==
    /\ codec = NoCodec
    /\ created = NotCreated
    /\ table = {}

Init ==
    /\ is_active = FALSE
    /\ command_queue = <<>>
    /\ thread = "initial"
    /\ worker_pc = "while"
    /\ write_delay = [nan |-> FALSE, ms |-> DefaultWriteDelayMs]
    /\ pc = [c \in Callers |-> "idle"]
    /\ last = [c \in Callers |-> NoCall]
    /\ LibInit

\* self._thread.start(): a thread object is started at most once; a second
\* start raises RuntimeError.
ThreadStart(c) ==
    IF thread = "initial"
    THEN /\ thread' = "alive"
         /\ worker_pc' = "while"
         /\ Goto(c, "start_set")
         /\ UNCHANGED <<is_active, command_queue, write_delay>>
    ELSE /\ Return(c, "start", "RuntimeError")
         /\ UNCHANGED link

\* self._thread.join(): returns once the thread has ended, blocks while it
\* runs, and raises RuntimeError on a thread that was never started.  The
\* line after it, self._is_active = False, runs in the same step.
ThreadJoin(c) ==
    /\ thread # "alive"
    /\ IF thread = "initial"
       THEN /\ Return(c, "stop", "RuntimeError")
            /\ UNCHANGED link
       ELSE /\ is_active' = FALSE
            /\ Return(c, "stop", "done")
            /\ UNCHANGED <<command_queue, thread, worker_pc, write_delay>>

\* start() without its first line.
start_unguarded(c) ==
    CASE pc[c] = "idle" ->
            /\ Goto(c, "start_check")
            /\ UNCHANGED link
      [] pc[c] = "start_check" ->
            /\ Goto(c, "start_thread")
            /\ UNCHANGED link
      [] pc[c] = "start_thread" -> ThreadStart(c)
      [] pc[c] = "start_set" ->
            /\ is_active' = TRUE
            /\ Return(c, "start", "done")
            /\ UNCHANGED <<command_queue, thread, worker_pc, write_delay>>
      [] OTHER -> FALSE

\* start(): caller c calls it, or takes its next step inside it.
start(c) ==
    CASE pc[c] = "idle" ->
            /\ Goto(c, "start_check")
            /\ UNCHANGED link
      [] pc[c] = "start_check" ->
            /\ IF is_active
               THEN Return(c, "start", "noop")
               ELSE Goto(c, "start_thread")
            /\ UNCHANGED link
      [] pc[c] = "start_thread" -> ThreadStart(c)
      [] pc[c] = "start_set" ->
            /\ is_active' = TRUE
            /\ Return(c, "start", "done")
            /\ UNCHANGED <<command_queue, thread, worker_pc, write_delay>>
      [] OTHER -> FALSE

\* stop(): caller c calls it, or takes its next step inside it.
stop(c) ==
    CASE pc[c] = "idle" ->
            /\ Goto(c, "stop_check")
            /\ UNCHANGED link
      [] pc[c] = "stop_check" ->
            /\ IF ~is_active
               THEN Return(c, "stop", "noop")
               ELSE Goto(c, "stop_join")
            /\ UNCHANGED link
      [] pc[c] = "stop_join" -> ThreadJoin(c)
      [] OTHER -> FALSE

\* __del__(): it calls self._stop(); the class defines stop() and no _stop,
\* so the attribute lookup raises AttributeError and stop() is not run.
del(c) ==
    CASE pc[c] = "idle" ->
            /\ Goto(c, "del_stop")
            /\ UNCHANGED link
      [] pc[c] = "del_stop" ->
            /\ Return(c, "__del__", "AttributeError")
            /\ UNCHANGED link
      [] OTHER -> FALSE

\* The write_delay setter, called by caller c with value v.
set_write_delay(c, v) ==
    /\ pc[c] = "idle"
    /\ IF ~v.isfloat
       THEN /\ Return(c, "write_delay", "TypeError")
            /\ UNCHANGED link
       ELSE IF LessThanZero(v)
       THEN /\ Return(c, "write_delay", "ValueError")
            /\ UNCHANGED link
       ELSE /\ write_delay' = Float(v)
            /\ Return(c, "write_delay", "done")
            /\ UNCHANGED <<is_active, command_queue, thread, worker_pc>>

\* __handle_command_queue: the test of `while True`.
WorkerWhile ==
    /\ thread = "alive"
    /\ worker_pc = "while"
    /\ worker_pc' = "pass"
    /\ UNCHANGED <<is_active, command_queue, thread, write_delay, pc, last, lib>>

\* __handle_command_queue: the loop body, `pass`.
WorkerPass ==
    /\ thread = "alive"
    /\ worker_pc = "pass"
    /\ worker_pc' = "while"
    /\ UNCHANGED <<is_active, command_queue, thread, write_delay, pc, last, lib>>

Worker == WorkerWhile \/ WorkerPass

Next ==
    \/ \E c \in Callers : start(c)
    \/ \E c \in Callers : stop(c)
    \/ \E c \in Callers : del(c)
    \/ \E c \in Callers : \E v \in DelayInputs : set_write_delay(c, v)
    \/ WorkerWhile
    \/ WorkerPass

Spec == Init /\ [][Next]_vars

\* A caller inside start(), stop() or __del__() goes on with it.
Proceed(c) == pc[c] # "idle" /\ (start(c) \/ stop(c) \/ del(c))

\* The threads are scheduled: the worker keeps running, and a caller that
\* is inside a call and not blocked takes its next step.  Whether a caller
\* makes another call is up to the caller.
FairSpec ==
    /\ Spec
    /\ WF_vars(Worker)
    /\ \A c \in Callers : WF_vars(Proceed(c))

TypeOK ==
    /\ is_active \in BOOLEAN
    /\ Len(command_queue) <= QueueMaxSize
    /\ thread \in {"initial", "alive", "stopped"}
    /\ worker_pc \in {"while", "pass"}
    /\ write_delay.nan \in BOOLEAN /\ write_delay.ms \in Int
    /\ pc \in [Callers -> {"idle", "start_check", "start_thread", "start_set",
                           "stop_check", "stop_join", "del_stop"}]
    /\ \A c \in Callers :
          last[c].op \in {"none", "start", "stop", "write_delay", "__del__"}

\* ------------------------------------------------------------ frame codec
\* __assemble_message, __disassemble_message and __get_crc of WiiProxy, and
\* calculate_crc of MultiWiiMessagePayload, over struct's pack and unpack.
\* A struct format is the sequence of its field characters; the byte order
\* is little-endian (_ENDIANNESS = '<').  A buffer is a sequence of bytes.
\* The preambles are the bytes their docstrings give.

\* _PREAMBLE_IN: "$M<".
PREAMBLE_IN == <<36, 77, 60>>

\* _PREAMBLE_OUT: "$M>".
PREAMBLE_OUT == <<36, 77, 62>>

\* What a call gives: the value it returns, or the exception it raises.
Returns(v) == [raised |-> "", value |-> v]

Raises(e) == [raised |-> e, value |-> <<>>]

\* x ^ y on two bytes, bit by bit.
RECURSIVE XorBits(_, _, _)
XorBits(x, y, n) ==
    IF n = 0
    THEN 0
    ELSE (((x % 2) + (y % 2)) % 2) + 2 * XorBits(x \div 2, y \div 2, n - 1)

Xor(x, y) == XorBits(x, y, 8)

\* calcsize of one field.
FieldSize(t) == IF t = "H" THEN 2 ELSE 1

\* The values a field holds; pack refuses any other.
FieldRange(t) ==
    CASE t = "b" -> -128 .. 127
      [] t = "B" -> 0 .. 255
      [] t = "H" -> 0 .. 65535

\* The bytes of one packed value.
FieldBytes(t, v) ==
    CASE t = "b" -> << (v % 256) >>
      [] t = "B" -> << v >>
      [] t = "H" -> << (v % 256), (v \div 256) >>

\* The value of one field read from buffer b at offset i (from 1).
FieldValue(t, b, i) ==
    CASE t = "b" -> IF b[i] > 127 THEN b[i] - 256 ELSE b[i]
      [] t = "B" -> b[i]
      [] t = "H" -> b[i] + (256 * b[i + 1])

RECURSIVE calcsize(_)
calcsize(format) ==
    IF format = <<>>
    THEN 0
    ELSE FieldSize(Head(format)) + calcsize(Tail(format))

RECURSIVE PackFields(_, _)
PackFields(format, data) ==
    IF format = <<>>
    THEN <<>>
    ELSE FieldBytes(Head(format), Head(data)) \o PackFields(Tail(format), Tail(data))

\* struct.pack(format, *data): struct.error unless there is one value per
\* field, each in the field's range.
pack(format, data) ==
    IF /\ Len(data) = Len(format)
       /\ \A i \in 1..Len(format) : data[i] \in FieldRange(format[i])
    THEN Returns(PackFields(format, data))
    ELSE Raises("struct.error")

RECURSIVE UnpackFields(_, _, _)
UnpackFields(format, b, i) ==
    IF format = <<>>
    THEN <<>>
    ELSE << FieldValue(Head(format), b, i) >>
            \o UnpackFields(Tail(format), b, i + FieldSize(Head(format)))

\* unpack with the other byte order ('>').
RECURSIVE UnpackFieldsBigEndian(_, _, _)
UnpackFieldsBigEndian(format, b, i) ==
    IF format = <<>>
    THEN <<>>
    ELSE << IF Head(format) = "H"
            THEN (256 * b[i]) + b[i + 1]
            ELSE FieldValue(Head(format), b, i) >>
            \o UnpackFieldsBigEndian(Tail(format), b, i + FieldSize(Head(format)))

UnpackBigEndian(format, b) ==
    IF Len(b) = calcsize(format)
    THEN Returns(UnpackFieldsBigEndian(format, b, 1))
    ELSE Raises("struct.error")

\* struct.unpack(format, buffer): struct.error unless the buffer has the
\* size of the format.
unpack(format, b) ==
    IF Len(b) = calcsize(format)
    THEN Returns(UnpackFields(format, b, 1))
    ELSE Raises("struct.error")

\* A checksum loop that starts from 1.
RECURSIVE CrcFromOne(_)
CrcFromOne(payload) ==
    IF payload = <<>>
    THEN 1
    ELSE Xor(CrcFromOne(SubSeq(payload, 1, Len(payload) - 1)),
             payload[Len(payload)])

\* WiiProxy.__get_crc: checksum = 0; for value in payload: checksum ^= value.
RECURSIVE get_crc(_)
get_crc(payload) ==
    IF payload = <<>>
    THEN 0
    ELSE Xor(get_crc(SubSeq(payload, 1, Len(payload) - 1)),
             payload[Len(payload)])

\* MultiWiiMessagePayload.calculate_crc: the same loop.
RECURSIVE calculate_crc(_)
calculate_crc(payload) ==
    IF payload = <<>>
    THEN 0
    ELSE Xor(calculate_crc(SubSeq(payload, 1, Len(payload) - 1)),
             payload[Len(payload)])

\* int.to_bytes(length=1, signed=False).
ToByte(n) == IF n \in 0..255 THEN Returns(<< n >>) ELSE Raises("OverflowError")

\* WiiProxy.__assemble_message(format, data).
assemble_message(format, data) ==
    LET payload == pack(format, data)
    IN  IF payload.raised # ""
        THEN payload
        ELSE LET checksum == ToByte(get_crc(payload.value))
             IN  IF checksum.raised # ""
                 THEN checksum
                 ELSE Returns(PREAMBLE_IN \o payload.value \o checksum.value)

\* WiiProxy.__disassemble_message(format, payload).
disassemble_message(format, payload) == unpack(format, payload)

\* The struct format of a full message, which __disassemble_message is
\* given: the preamble ('3b'), the fields of the payload, the checksum.
FullFormat(format) == <<"b", "b", "b">> \o format \o <<"B">>

\* The payload formats and the data the codec is called with: '<2B' (length
\* and code) followed by the fields of a command.
GetFormat == <<"B", "B">>
SmallFormat == <<"B", "B", "B", "H">>
SetFormat == <<"B", "B", "H">>
AttitudeFormat == <<"B", "B", "B", "B", "H", "H", "H", "H", "H", "H", "H">>

CodecInputs ==
    {[format |-> GetFormat, data |-> <<0, c>>] : c \in {101, 121}}
    \cup {[format |-> SmallFormat, data |-> <<3, 121, x, y>>] :
              x \in {0, 7, 255}, y \in {0, 10, 258, 65535}}
    \cup {[format |-> SetFormat, data |-> <<2, 200, y>>] : y \in {0, 20, 513}}
    \cup {[format |-> AttitudeFormat,
           data |-> <<16, 121, 0, 0, 10, 20, 0, 0, 0, 0, 0>>]}
    \cup {[format |-> SetFormat, data |-> <<2, 200>>],
          [format |-> SetFormat, data |-> <<2, 200, 65536>>],
          [format |-> SmallFormat, data |-> <<3, 121, 256, 0>>]}

\* The buffers the checksum functions are called with.
CrcInputs ==
    LET B == {0, 1, 36, 101, 255}
    IN  {<<>>} \cup {<<x>> : x \in B} \cup {<<x, y>> : x, y \in B}
        \cup {<<x, y, z>> : x, y, z \in B}

\* Buffer b with bit k of byte i flipped.
FlipBit(b, i, k) == [b EXCEPT ![i] = Xor(@, 2 ^ k)]

\* A codec function is called and its arguments and result are recorded.
\* One call per behaviour: the functions keep no state, so a second call
\* would show nothing the first cannot.
CodecCall(record) ==
    /\ codec = NoCodec
    /\ codec' = record
    /\ UNCHANGED <<link, pc, last, created, table>>

\* A call of __assemble_message.
Assemble ==
    \E in \in CodecInputs :
        CodecCall([op |-> "assemble", format |-> in.format, data |-> in.data,
                   buf |-> <<>>, out |-> assemble_message(in.format, in.data),
                   aux |-> <<>>])

\* __assemble_message, then __disassemble_message of its bytes, with the
\* payload format or with the format of the full message.
RoundTrip ==
    \E in \in CodecInputs :
        LET frame == assemble_message(in.format, in.data)
        IN  /\ frame.raised = ""
            /\ \E f \in {in.format, FullFormat(in.format)} :
                 CodecCall([op |-> "roundtrip", format |-> f, data |-> in.data,
                            buf |-> frame.value,
                            out |-> disassemble_message(f, frame.value),
                            aux |-> in.format])

\* __disassemble_message of an assembled message in which one bit of the
\* length byte, the code byte or a values byte was flipped.
Corrupt ==
    \E in \in CodecInputs :
        LET frame == assemble_message(in.format, in.data)
        IN  /\ frame.raised = ""
            /\ \E i \in 4..(Len(frame.value) - 1), k \in 0..7 :
                 LET bad == FlipBit(frame.value, i, k)
                 IN  CodecCall([op |-> "corrupt",
                                format |-> FullFormat(in.format),
                                data |-> in.data, buf |-> bad,
                                out |-> disassemble_message(FullFormat(in.format), bad),
                                aux |-> frame.value])

\* A call of both checksum functions on the same buffer.
Crc ==
    \E b \in CrcInputs :
        CodecCall([op |-> "crc", format |-> <<>>, data |-> <<>>, buf |-> b,
                   out |-> Returns(get_crc(b)), aux |-> calculate_crc(b)])

CodecNext ==
    \/ Assemble
    \/ RoundTrip
    \/ Corrupt
    \/ Crc

CodecSpec == Init /\ [][CodecNext]_vars

\* ----------------------------------------------------- command descriptors
\* MspCommand of src/wiiproxy/command.py, and the registration of the data
\* classes by the decorators command_code and struct_format.  The
\* decorators are imported from the package (`from . import command_code,
\* struct_format`) and are not among the source files: register is written
\* from section 4.1 of the specification.

\* The value of an attribute set to None.
None == -1

\* MspCommand.__init__ with the bound its error message names, 240.
MspCommandUpTo240(code, struct_format) ==
    IF ~(100 <= code /\ code <= 240)
    THEN Raises("ValueError")
    ELSE IF struct_format # <<>>
    THEN LET has_variable_size == Head(struct_format) = "*"
             format == IF has_variable_size
                       THEN Tail(struct_format)
                       ELSE struct_format
         IN  Returns([code |-> code, is_set_command |-> code >= 200,
                      has_variable_size |-> has_variable_size,
                      struct_format |-> format,
                      struct_format_size |-> calcsize(format)])
    ELSE Returns([code |-> code, is_set_command |-> code >= 200,
                  has_variable_size |-> FALSE, struct_format |-> <<>>,
                  struct_format_size |-> None])

\* MspCommand.__init__ with `code > 200` for the kind.
MspCommandSetAbove200(code, struct_format) ==
    IF ~(100 <= code /\ code <= 250)
    THEN Raises("ValueError")
    ELSE IF struct_format # <<>>
    THEN LET has_variable_size == Head(struct_format) = "*"
             format == IF has_variable_size
                       THEN Tail(struct_format)
                       ELSE struct_format
         IN  Returns([code |-> code, is_set_command |-> code > 200,
                      has_variable_size |-> has_variable_size,
                      struct_format |-> format,
                      struct_format_size |-> calcsize(format)])
    ELSE Returns([code |-> code, is_set_command |-> code > 200,
                  has_variable_size |-> FALSE, struct_format |-> <<>>,
                  struct_format_size |-> None])

\* MspCommand.__init__(code, struct_format): the descriptor, or ValueError.
\* A leading '*' marks a variable size and is stripped from the format.
MspCommand(code, struct_format) ==
    IF ~(100 <= code /\ code <= 250)
    THEN Raises("ValueError")
    ELSE IF struct_format # <<>>
    THEN LET has_variable_size == Head(struct_format) = "*"
             format == IF has_variable_size
                       THEN Tail(struct_format)
                       ELSE struct_format
         IN  Returns([code |-> code, is_set_command |-> code >= 200,
                      has_variable_size |-> has_variable_size,
                      struct_format |-> format,
                      struct_format_size |-> calcsize(format)])
    ELSE Returns([code |-> code, is_set_command |-> code >= 200,
                  has_variable_size |-> FALSE, struct_format |-> <<>>,
                  struct_format_size |-> None])

\* A registration that replaces nothing and refuses nothing.
register_any(t, code, struct_format) ==
    LET made == MspCommand(code, struct_format)
    IN  IF made.raised # ""
        THEN [result |-> made, table |-> t]
        ELSE [result |-> made, table |-> t \cup {made.value}]

\* register(code, layout) on table t: the descriptor is made; a code that
\* is already registered is refused and the table is left as it was.
register(t, code, struct_format) ==
    LET made == MspCommand(code, struct_format)
    IN  IF made.raised # ""
        THEN [result |-> made, table |-> t]
        ELSE IF \E d \in t : d.code = code
        THEN [result |-> Raises("DuplicateRegistrationError"), table |-> t]
        ELSE [result |-> made, table |-> t \cup {made.value}]

\* The codes and struct formats descriptors are asked for.
CommandCodes == {99, 100, 150, 199, 200, 250, 251}

RegisterCodes == {99, 111, 150, 200}

CommandFormats == {<<>>, <<"B", "B", "B">>, <<"*", "H">>}

\* MspCommand(code, struct_format) is called.
NewCommand ==
    \E code \in CommandCodes, f \in CommandFormats :
        /\ created' = [op |-> "new", code |-> code, struct_format |-> f,
                       result |-> MspCommand(code, f)]
        /\ UNCHANGED <<link, pc, last, codec, table>>

\* A data class decorated with a code and a struct format is registered.
Register ==
    \E code \in RegisterCodes, f \in CommandFormats :
        LET r == register(table, code, f)
        IN  /\ created' = [op |-> "register", code |-> code,
                           struct_format |-> f, result |-> r.result]
            /\ table' = r.table
            /\ UNCHANGED <<link, pc, last, codec>>

CommandNext ==
    \/ NewCommand
    \/ Register

CommandSpec == Init /\ [][CommandNext]_vars

\* ---------------------------------------------------------------- start()

\* A start() call of caller c returns normally in this step.
StartReturned(c) ==
    /\ pc[c] \in {"start_check", "start_set"}
    /\ pc'[c] = "idle"

StopEventuallyReturns ==
    \A c \in Callers :
        (pc[c] = "stop_join") ~> (pc[c] = "idle" /\ ~is_active)

\* -------------------------------------------------------------- __del__()

\* C11: destroying a link runs stop(): after the destruction of an active
\* link the worker no longer runs and the link is inactive.
DestroyStopsLink ==
    [][\A c \in Callers :
         (pc[c] = "del_stop" /\ pc'[c] = "idle" /\ is_active)
            => (~is_active' /\ thread' # "alive")]_vars

\* ------------------------------------------------------ concurrent start()

\* C19: with callers running start() concurrently, no start() call fails
\* (the worker thread being started at most once).
ConcurrentStartNeverFails ==
    \A c \in Callers : last[c] # Call("start", "RuntimeError")

\* ------------------------------------------------------------- write_delay

\* C20: the stored write_delay is always a non-negative float.
WriteDelayNonNegative ==
    ~write_delay.nan /\ write_delay.ms >= 0

\* ------------------------------------------------------------ frame codec

\* C12: an assembled message is the outgoing preamble '$','M','>', one
\* length byte equal to the number of payload bytes, the code byte, the
\* payload and one checksum byte.
AssembleOutgoingFrame ==
    (codec.op = "assemble" /\ codec.out.raised = "")
       => LET frame == codec.out.value
          IN  /\ Len(frame) = Len(PREAMBLE_OUT) + calcsize(codec.format) + 1
              /\ SubSeq(frame, 1, 3) = PREAMBLE_OUT
              /\ frame[4] = Len(frame) - 6
              /\ frame[5] = codec.data[2]

\* Bit k of byte n.
Bit(n, k) == (n \div (2 ^ k)) % 2

\* c is the XOR of the bytes of b: each bit of c is the parity of that bit
\* over b (so the XOR of no bytes is 0).
IsXorOf(c, b) ==
    /\ c \in 0..255
    /\ \A k \in 0..7 :
          Bit(c, k) = Cardinality({i \in 1..Len(b) : Bit(b[i], k) = 1}) % 2

CorruptedFrameRejected ==
    codec.op = "corrupt" => codec.out.raised = "ChecksumMismatchError"

\* ----------------------------------------------------- command descriptors

KindFromCode ==
    /\ (created.op # "none" /\ created.result.raised = "")
          => (created.result.value.is_set_command <=> created.code >= 200)
    /\ \A d \in table : d.is_set_command <=> d.code >= 200

\* C17, its case: the descriptor of code 200 was made, a Set command.
SetCommandMade ==
    /\ created.op = "new"
    /\ created.code = 200
    /\ created.result.raised = ""
    /\ created.result.value.is_set_command

\* C18: a registration under a code that is already registered fails and
\* leaves the table as it was, and no two descriptors of the table have
\* the same code.
UniqueRegistration ==
    /\ [](\A d1, d2 \in table : d1.code = d2.code => d1 = d2)
    /\ [][(/\ created' # created
           /\ created'.op = "register"
           /\ \E d \in table : d.code = created'.code)
             => /\ created'.result.raised = "DuplicateRegistrationError"
                /\ table' = table]_vars

\* C18, its case: a second layout was registered under a registered code
\* and refused, the first one still in the table.
DuplicateRefused ==
    /\ created.op = "register"
    /\ created.result.raised = "DuplicateRegistrationError"
    /\ \E d \in table :
          /\ d.code = created.code
          /\ d.has_variable_size
          /\ created.struct_format = <<"B", "B", "B">>

====
